---- MODULE Spec2Model ----
(***************************************************************************)
(* A model of isptools.py: the level estimators blackLevel / whiteLevel,   *)
(* the quantizer quantize, and the transfer curves gamma / degamma.        *)
(*                                                                         *)
(* The functions are pure.  Each family is exercised by a specification of *)
(* its own (LevelSpec, QuantizeSpec, GammaSpec): Init draws a frame (and,  *)
(* for the curves, maxval and mode), the actions call the functions and    *)
(* append what was called, on what, and what came back to `calls`.         *)
(***************************************************************************)
EXTENDS Integers, Sequences, FiniteSets, TLC

VARIABLES
    frame,      \* the frame the caller holds (a sequence of samples)
    params,     \* the scalar parameters the caller holds (maxval, mode)
    calls       \* the calls made so far: <<[fn, in, args.., out], ...>>

vars == <<frame, params, calls>>

\* ------------------------------------------------------------------ bounds

\* Longest frame of the level estimators' specification.
MaxN == 3
\* Largest pixel value in a frame of the level estimators' specification.
MaxPixel == 2
\* Calls made in one run of the level estimators' specification.
MaxCalls == 2

\* ------------------------------------------------------------- outcomes

\* A call returns a value, or raises a Python exception.
Ok(v) == [exc |-> "", val |-> <<v>>]
Raise(e) == [exc |-> e, val |-> <<>>]
Returned(r) == r.exc = ""
Val(r) == r.val[1]

\* Python's None (the mode that is no mode).
None == "None"

\* ------------------------------------------------------------- rationals

Abs(x) == IF x < 0 THEN -x ELSE x

RECURSIVE Gcd(_, _)
Gcd(a, b) == IF b = 0 THEN a ELSE Gcd(b, a % b)

\* The rational n/d (d > 0) in lowest terms.
Rat(n, d) ==
    LET g == Gcd(Abs(n), d)
    IN  [n |-> n \div g, d |-> d \div g]

RatLe(x, y) == x.n * y.d <= y.n * x.d
RatLt(x, y) == x.n * y.d < y.n * x.d

\* ------------------------------------------------------- level estimators

\* frame.size
Size(f) == Len(f)

\* The flattened samples in ascending order.
Sorted(f) == SortSeq(f, LAMBDA a, b : a < b)

Min2(a, b) == IF a < b THEN a ELSE b

\* np.percentile(frame, pct), pct a rational: the value at rank
\* pct/100 * (N-1) of the sorted samples, interpolated linearly between the
\* two order statistics around it; a pct outside [0, 100] is a ValueError.
\* (Two variants the claims must tell from it: one that clamps pct instead
\* of refusing it, one that forgets to sort.)
PercentileNoRangeCheck(f, pct) ==
    LET N    == Size(f)
        a    == Sorted(f)
        p    == IF pct.n < 0 THEN 0 ELSE IF pct.n > 100 * pct.d THEN 100 * pct.d ELSE pct.n
        D    == 100 * pct.d
        num  == p * (N - 1)
        lo   == num \div D
        rem  == num % D
        hi   == Min2(lo + 1, N - 1)
    IN  Ok(Rat(a[lo + 1] * D + (a[hi + 1] - a[lo + 1]) * rem, D))

PercentileUnsorted(f, pct) ==
    IF pct.n < 0 \/ pct.n > 100 * pct.d
    THEN Raise("ValueError")
    ELSE LET N    == Size(f)
             D    == 100 * pct.d
             num  == pct.n * (N - 1)
             lo   == num \div D
             rem  == num % D
             hi   == Min2(lo + 1, N - 1)
         IN  Ok(Rat(f[lo + 1] * D + (f[hi + 1] - f[lo + 1]) * rem, D))

Percentile(f, pct) ==
    IF pct.n < 0 \/ pct.n > 100 * pct.d
    THEN Raise("ValueError")
    ELSE LET N    == Size(f)
             a    == Sorted(f)
             D    == 100 * pct.d
             num  == pct.n * (N - 1)
             lo   == num \div D
             rem  == num % D
             hi   == Min2(lo + 1, N - 1)
         IN  Ok(Rat(a[lo + 1] * D + (a[hi + 1] - a[lo + 1]) * rem, D))

\* pct = (float(maxOutliers) / frame.size) * 100.0
BlackPct(k, N) == Rat(100 * k, N)

\* pct = (1.0 - float(maxOutliers) / frame.size) * 100.0
\* (The variant without "1.0 -" is blackLevel's.)
WhitePctNoComplement(k, N) == Rat(100 * k, N)

WhitePct(k, N) == Rat(100 * (N - k), N)

blackLevel(f, maxOutliers) ==
    IF Size(f) = 0
    THEN Raise("ZeroDivisionError")
    ELSE Percentile(f, BlackPct(maxOutliers, Size(f)))

whiteLevel(f, maxOutliers) ==
    IF Size(f) = 0
    THEN Raise("ZeroDivisionError")
    ELSE Percentile(f, WhitePct(maxOutliers, Size(f)))

\* ------------------------------------------- level estimators: the system

RECURSIVE SeqsUpTo(_, _)
SeqsUpTo(S, n) ==
    IF n = 0 THEN {<<>>}
    ELSE LET shorter == SeqsUpTo(S, n - 1)
         IN  shorter \cup {Append(s, x) : s \in {t \in shorter : Len(t) = n - 1}, x \in S}

LevelFrames == SeqsUpTo(0 .. MaxPixel, MaxN)

\* The tolerances tried: from one below the legal range to one past the size.
Tolerances(f) == -1 .. Size(f) + 1

LevelInit ==
    /\ frame \in LevelFrames
    /\ params = <<>>
    /\ calls = <<>>

CallBlackLevel ==
    /\ Len(calls) < MaxCalls
    /\ \E k \in Tolerances(frame) :
         calls' = Append(calls, [fn |-> "blackLevel", in |-> frame, k |-> k,
                                 out |-> blackLevel(frame, k)])
    /\ UNCHANGED <<frame, params>>

CallWhiteLevel ==
    /\ Len(calls) < MaxCalls
    /\ \E k \in Tolerances(frame) :
         calls' = Append(calls, [fn |-> "whiteLevel", in |-> frame, k |-> k,
                                 out |-> whiteLevel(frame, k)])
    /\ UNCHANGED <<frame, params>>

LevelNext == CallBlackLevel \/ CallWhiteLevel

LevelSpec == LevelInit /\ [][LevelNext]_vars

\* --------------------------------------------- level estimators: claims

Range(f) == {f[i] : i \in 1 .. Len(f)}
MinOf(f) == CHOOSE x \in Range(f) : \A y \in Range(f) : x <= y
MaxOf(f) == CHOOSE x \in Range(f) : \A y \in Range(f) : x >= y
Made == 1 .. Len(calls)
IsLevelCall(c) == c.fn \in {"blackLevel", "whiteLevel"}

\* C3: with maxOutliers = 0 on a non-empty frame, blackLevel returns the
\* true minimum sample and whiteLevel the true maximum sample.
C3_ZeroToleranceIsMinMax ==
    \A i \in Made :
        LET c == calls[i]
        IN  (IsLevelCall(c) /\ c.k = 0 /\ Size(c.in) > 0) =>
                /\ c.fn = "blackLevel" => c.out = Ok(Rat(MinOf(c.in), 1))
                /\ c.fn = "whiteLevel" => c.out = Ok(Rat(MaxOf(c.in), 1))

\* C3's case: both estimators were called with tolerance 0 on a frame whose
\* minimum and maximum differ.
C3_Witness ==
    /\ Len(calls) = 2
    /\ calls[1].fn = "blackLevel" /\ calls[1].k = 0
    /\ calls[2].fn = "whiteLevel" /\ calls[2].k = 0
    /\ Size(frame) >= 2
    /\ MinOf(frame) < MaxOf(frame)
    /\ Val(calls[1].out) = Rat(MinOf(frame), 1)
    /\ Val(calls[2].out) = Rat(MaxOf(frame), 1)

\* C4: when at most k samples (1 <= k < N) lie below v and every other
\* sample equals v, blackLevel(frame, k) returns exactly v.
C4_DeadPixelsExcluded ==
    \A i \in Made :
        LET c == calls[i]
        IN  (c.fn = "blackLevel" /\ 1 <= c.k /\ c.k < Size(c.in)) =>
                \A v \in Range(c.in) :
                    (/\ \A j \in 1 .. Len(c.in) : c.in[j] <= v
                     /\ Cardinality({j \in 1 .. Len(c.in) : c.in[j] < v}) <= c.k)
                    => c.out = Ok(Rat(v, 1))

C8_MonotoneInTolerance ==
    \A i, j \in Made :
        LET c == calls[i]
            d == calls[j]
        IN  (/\ IsLevelCall(c) /\ d.fn = c.fn /\ d.in = c.in /\ d.k = c.k + 1
             /\ Returned(c.out) /\ Returned(d.out)) =>
                /\ c.fn = "blackLevel" => RatLe(Val(c.out), Val(d.out))
                /\ c.fn = "whiteLevel" => RatLe(Val(d.out), Val(c.out))

\* C8's case: blackLevel called with k and then k + 1 on an unsorted frame,
\* the estimate strictly rising.
C8_Witness ==
    /\ Len(calls) = 2
    /\ frame # Sorted(frame)
    /\ calls[1].fn = "blackLevel" /\ calls[2].fn = "blackLevel"
    /\ calls[2].k = calls[1].k + 1
    /\ Returned(calls[1].out) /\ Returned(calls[2].out)
    /\ RatLt(Val(calls[1].out), Val(calls[2].out))

\* ------------------------------------------------------ binary64 numbers
\* quantize's arithmetic is IEEE binary64 (Python floats, np.float64): each
\* operation returns the exact result rounded to 53 significant bits, ties
\* to even.  A non-negative number is [bits, e]: the natural number whose
\* binary digits are `bits` (most significant first, no leading zero; <<>>
\* is 0) times 2^e.  The frames hold numbers that binary64 holds exactly.

\* Significant bits of np.float64.
Prec == 53
\* Width of np.uint16.
Width == 16
\* Long multiplication and division go LimbBits binary digits at a time.
LimbBits == 13
Limb == 2 ^ LimbBits

RECURSIVE ToBits(_)
ToBits(n) == IF n = 0 THEN <<>> ELSE Append(ToBits(n \div 2), n % 2)

\* The w low binary digits of n.
ToBitsW(n, w) == [i \in 1 .. w |-> (n \div 2 ^ (w - i)) % 2]

RECURSIVE FromBitsRec(_, _, _)
FromBitsRec(bits, i, acc) ==
    IF i > Len(bits) THEN acc
    ELSE LET next == 2 * acc + bits[i]
         IN  IF next >= 0 THEN FromBitsRec(bits, i + 1, next) ELSE 0
FromBits(bits) == FromBitsRec(bits, 1, 0)

Zeros(k) == [i \in 1 .. k |-> 0]

PadTo(bits, n) == Zeros(n - Len(bits)) \o bits

StripLeading(bits) ==
    IF \A i \in 1 .. Len(bits) : bits[i] = 0
    THEN <<>>
    ELSE LET first == CHOOSE j \in 1 .. Len(bits) :
                          bits[j] = 1 /\ \A i \in 1 .. j - 1 : bits[i] = 0
         IN  SubSeq(bits, first, Len(bits))

\* bits + 2^pos
AddPow2(bits, pos) ==
    LET n        == IF Len(bits) > pos THEN Len(bits) ELSE pos + 1
        a        == PadTo(bits, n)
        \* the carry into the digit of weight 2^w
        carry(w) == \A v \in pos .. w - 1 : a[n - v] = 1
        sum      == [i \in 1 .. n |->
                        IF n - i < pos THEN a[i]
                        ELSE (a[i] + (IF carry(n - i) THEN 1 ELSE 0)) % 2]
    IN  IF carry(n) THEN <<1>> \o sum ELSE sum

\* The digits as limbs of LimbBits digits, most significant first.
LimbsOf(bits) ==
    LET L == (Len(bits) + LimbBits - 1) \div LimbBits
        p == PadTo(bits, L * LimbBits)
    IN  [j \in 1 .. L |-> FromBits(SubSeq(p, (j - 1) * LimbBits + 1, j * LimbBits))]

\* Limbs times a small natural number, from the last limb up.
RECURSIVE MulRec(_, _, _, _, _)
MulRec(l, k, j, carry, acc) ==
    IF j = 0
    THEN ToBits(carry) \o acc
    ELSE LET t    == l[j] * k + carry
             next == ToBitsW(t % Limb, LimbBits) \o acc
         IN  IF Len(next) > 0 THEN MulRec(l, k, j - 1, t \div Limb, next) ELSE <<>>

MulBits(bits, k) ==
    LET l == LimbsOf(bits)
    IN  StripLeading(MulRec(l, k, Len(l), 0, <<>>))

\* The exact number bits * 2^e, plus something in (0, 2^e) when `sticky`,
\* rounded to Prec significant bits: to nearest, ties to even.
RoundNearestEven(bits, e, sticky) ==
    IF Len(bits) <= Prec
    THEN [bits |-> bits, e |-> e]
    ELSE LET kept == SubSeq(bits, 1, Prec)
             rest == SubSeq(bits, Prec + 2, Len(bits))
             more == sticky \/ \E i \in 1 .. Len(rest) : rest[i] = 1
             up   == bits[Prec + 1] = 1 /\ (more \/ kept[Prec] = 1)
         IN  [bits |-> IF up THEN AddPow2(kept, 0) ELSE kept,
              e    |-> e + (Len(bits) - Prec)]

\* The binary digits of n/d after those in acc, a limb at a time, until
\* more than Prec significant digits are there or the division ends; r is
\* the remainder so far.
RECURSIVE DivRec(_, _, _, _)
DivRec(r, d, acc, e) ==
    IF r = 0 \/ Len(acc) > Prec
    THEN [bits |-> acc, e |-> e, sticky |-> r # 0]
    ELSE LET t    == r * Limb
             next == StripLeading(acc \o ToBitsW(t \div d, LimbBits))
         IN  IF Len(next) >= 0 THEN DivRec(t % d, d, next, e - LimbBits) ELSE <<>>

\* float(n) / d for natural numbers n and d > 0.
FDiv(n, d) ==
    LET q == DivRec(n % d, d, ToBits(n \div d), 0)
    IN  RoundNearestEven(q.bits, q.e, q.sticky)

\* x * y, where x = [m, e] is m * 2^e with m a small natural number.
FMul(x, y) == RoundNearestEven(MulBits(y.bits, x.m), x.e + y.e, FALSE)

\* v + 0.5
FAddHalf(v) ==
    IF v.bits = <<>>
    THEN [bits |-> <<1>>, e |-> -1]
    ELSE IF v.e >= 0
         THEN RoundNearestEven(AddPow2(v.bits \o Zeros(v.e + 1), 0), -1, FALSE)
         ELSE RoundNearestEven(AddPow2(v.bits, -1 - v.e), v.e, FALSE)

\* The sample m * 2^e as a binary64 number.
AsDouble(x) == [bits |-> ToBits(x.m), e |-> x.e]

\* The integer part of a binary64 number, as binary digits.
TruncBits(v) ==
    IF v.e >= 0
    THEN IF v.bits = <<>> THEN <<>> ELSE v.bits \o Zeros(v.e)
    ELSE IF -v.e >= Len(v.bits) THEN <<>> ELSE SubSeq(v.bits, 1, Len(v.bits) + v.e)

\* ---------------------------------------------------------------- quantize

\* What .astype(np.uint16) makes of a binary64 number whose integer part
\* does not fit in 16 bits.  C leaves the conversion undefined; builds are
\* known to keep the low 16 bits, to saturate, or to give 0.
CastOutcomes == {"wrap", "saturate", "zero"}

LowBits(bits, w) ==
    IF Len(bits) <= w THEN bits ELSE SubSeq(bits, Len(bits) - w + 1, Len(bits))

\* (v).astype(np.uintW) for v >= 0: the fraction is dropped.
ToUint(v, w, how) ==
    LET int == TruncBits(v)
    IN  IF Len(int) <= w
        THEN FromBits(int)
        ELSE CASE how = "wrap"     -> FromBits(LowBits(int, w))
               [] how = "saturate" -> FromBits([i \in 1 .. w |-> 1])
               [] how = "zero"     -> 0

\* (astype(np.uint8) would be the 8-bit variant.)
ToUint8(v, how) == ToUint(v, 8, how)

ToUint16(v, how) == ToUint(v, Width, how)

\* scale = float(newmaxval) / maxval
Scale(maxval, newmaxval) == FDiv(newmaxval, maxval)

\* frame * scale, for one sample
Scaled(x, maxval, newmaxval) ==
    IF maxval # newmaxval THEN FMul(x, Scale(maxval, newmaxval)) ELSE AsDouble(x)

\* (frame + 0.5), for one sample
PlusHalf(v) == FAddHalf(v)

\* One sample of quantize(frame, maxval, newmaxval).
QuantizeSample(x, maxval, newmaxval, how) ==
    ToUint16(PlusHalf(Scaled(x, maxval, newmaxval)), how)

\* quantize(frame, maxval, newmaxval); `how` is what the build makes of a
\* cast that is out of range.
quantize(f, maxval, newmaxval, how) ==
    IF maxval # newmaxval /\ maxval = 0
    THEN Raise("ZeroDivisionError")
    ELSE Ok([i \in 1 .. Len(f) |-> QuantizeSample(f[i], maxval, newmaxval, how)])

\* ------------------------------------------------------ quantize: the system

\* Longest frame of the quantizer's specification.
MaxQuantN == 2

\* The sample m * 2^e.
Dy(m, e) == [m |-> m, e |-> e]

\* Samples: pixel values up to and past 16 bits, and values between the
\* integers (quarters and halves).
QuantSamples ==
    {Dy(0, 0), Dy(1, 0), Dy(27, 0), Dy(512, 0), Dy(1023, 0), Dy(65535, 0),
     Dy(65536, 0), Dy(1, -2), Dy(1, -1), Dy(3, -2), Dy(1023, -1)}

QuantFrames == SeqsUpTo(QuantSamples, MaxQuantN) \ {<<>>}

Maxvals == {6, 13, 255, 1023}

QuantInit ==
    /\ frame \in QuantFrames
    /\ params = <<>>
    /\ calls = <<>>

CallQuantize ==
    /\ calls = <<>>
    /\ \E maxval \in Maxvals, newmaxval \in Maxvals, how \in CastOutcomes :
         calls' = <<[fn |-> "quantize", in |-> frame, maxval |-> maxval,
                     newmaxval |-> newmaxval,
                     out |-> quantize(frame, maxval, newmaxval, how)]>>
    /\ UNCHANGED <<frame, params>>

QuantNext == CallQuantize

QuantizeSpec == QuantInit /\ [][QuantNext]_vars

\* ------------------------------------------------------- quantize: claims

Pow2(k) == 2 ^ k

IsQuantizeCall(c) == c.fn = "quantize"

\* floor(x * newmaxval / maxval + 1/2) for the sample x = m * 2^e, e <= 0,
\* in exact arithmetic.
RoundHalfUp(x, maxval, newmaxval) ==
    LET unit == Pow2(-x.e)
    IN  (2 * x.m * newmaxval + maxval * unit) \div (2 * maxval * unit)

\* C2 as stated: quantize(frame, M, M) returns a frame numerically equal to
\* the input, whatever the samples.
C2_SameMaxvalIsIdentity ==
    \A i \in Made :
        LET c == calls[i]
        IN  (IsQuantizeCall(c) /\ c.maxval = c.newmaxval) =>
                /\ Returned(c.out)
                /\ \A j \in 1 .. Len(c.in) :
                       Val(c.out)[j] * Pow2(-c.in[j].e) = c.in[j].m

\* C2 amended: quantize(frame, M, M) returns every integer sample in
\* [0, 65535] unchanged; the samples are not rescaled but are still rounded
\* half up and cast to 16 bits, so a sample between two integers comes
\* back as floor(x + 1/2).
C2_SameMaxvalRoundsOnly ==
    \A i \in Made :
        LET c == calls[i]
        IN  (IsQuantizeCall(c) /\ c.maxval = c.newmaxval) =>
                /\ Returned(c.out)
                /\ \A j \in 1 .. Len(c.in) :
                       LET x == c.in[j]
                           y == Val(c.out)[j]
                       IN  /\ (x.e = 0 /\ x.m < Pow2(Width)) => y = x.m
                           /\ (x.e < 0 /\ x.m < Pow2(Width)) =>
                                  y = (2 * x.m + Pow2(-x.e)) \div (2 * Pow2(-x.e))

\* C2's case: quantize was called with maxval = newmaxval on a frame with a
\* 10-bit pixel value, and returned it.
C2_Witness ==
    /\ Len(calls) = 1
    /\ IsQuantizeCall(calls[1])
    /\ calls[1].maxval = calls[1].newmaxval
    /\ \E j \in 1 .. Len(frame) :
           /\ frame[j] = Dy(1023, 0)
           /\ Val(calls[1].out)[j] = 1023

\* C5: for maxval # newmaxval, quantize maps every non-negative sample x
\* whose scaled value fits in 16 bits to floor(x * newmaxval / maxval + 1/2).
C5_RoundHalfUp ==
    \A i \in Made :
        LET c == calls[i]
        IN  (IsQuantizeCall(c) /\ c.maxval # c.newmaxval) =>
                /\ Returned(c.out)
                /\ \A j \in 1 .. Len(c.in) :
                       LET want == RoundHalfUp(c.in[j], c.maxval, c.newmaxval)
                       IN  want < Pow2(Width) => Val(c.out)[j] = want

\* ---------------------------------------------------- fixed-point numbers
\* gamma and degamma work on real numbers through np.power.  They are
\* modelled in decimal fixed point: the integer v stands for v / Unit, each
\* operation rounds its exact result to the nearest multiple of 1 / Unit.
\* A sample is such a number or one of IEEE's special values.

Unit == 10 ^ 6
\* Products are formed in two halves of SplitBase each, to stay in 32 bits.
SplitBase == 10 ^ 3
\* Products saturate at Huge (46.0); no curve value comes near it.
Huge == 46 * Unit

\* The decimal n * 10^-digits, for digits <= 6.
Dec(n, digits) == n * 10 ^ (6 - digits)

Num(v) == [k |-> "num", v |-> v]
NaN    == [k |-> "nan", v |-> 0]
Inf    == [k |-> "inf", v |-> 0]
NegInf == [k |-> "-inf", v |-> 0]
IsNum(a) == a.k = "num"
IsNaN(a) == a.k = "nan"

Sat(a) == IF a > Huge THEN Huge ELSE a

\* a * b for a, b >= 0.
MulFix(a, b) ==
    LET a1 == Sat(a) \div SplitBase
        a0 == Sat(a) % SplitBase
        b1 == Sat(b) \div SplitBase
        b0 == Sat(b) % SplitBase
        c  == a1 * b0 + a0 * b1
        d  == a0 * b0 + Unit \div 2
    IN  Sat(a1 * b1 + (c + d \div SplitBase) \div SplitBase)

\* a / c for a >= 0, c > 0: long division, two decimal digits at a time.
RECURSIVE DivFixRec(_, _, _, _)
DivFixRec(q, r, c, steps) ==
    IF steps = 0
    THEN q + (IF 2 * r >= c THEN 1 ELSE 0)
    ELSE DivFixRec(q * 100 + (r * 100) \div c, (r * 100) % c, c, steps - 1)

DivFix(a, c) == DivFixRec(a \div c, a % c, c, 3)

\* For either sign.
SMul(c, a) == IF a >= 0 THEN MulFix(c, a) ELSE -MulFix(c, -a)
SDiv(a, c) == IF a >= 0 THEN DivFix(a, c) ELSE -DivFix(-a, c)

\* a / n for an integer n > 0, to the nearest.
RoundDiv(a, n) == IF a >= 0 THEN (2 * a + n) \div (2 * n) ELSE -((2 * (-a) + n) \div (2 * n))

\* r^n for a natural number n, by squaring.
RECURSIVE IPow(_, _)
IPow(r, n) ==
    IF n = 0 THEN Unit
    ELSE IF n % 2 = 0
         THEN LET h == IPow(r, n \div 2) IN MulFix(h, h)
         ELSE MulFix(r, IPow(r, n - 1))

\* The largest r in lo .. hi with r^q <= x, by bisection.
RECURSIVE RootRec(_, _, _, _)
RootRec(x, q, lo, hi) ==
    IF lo >= hi THEN lo
    ELSE LET mid == (lo + hi + 1) \div 2
         IN  IF IPow(mid, q) <= x
             THEN RootRec(x, q, mid, hi)
             ELSE RootRec(x, q, lo, mid - 1)

Root(x, q) == RootRec(x, q, 0, IF x > Unit THEN x ELSE Unit)

\* x^(p/q) for x >= 0.
PowFix(x, p, q) == IPow(Root(x, q), p)

\* np.power(a, p/q), the exponent positive and not an integer: a negative
\* base has no real power and gives NaN (with a RuntimeWarning, no error).
XPow(a, p, q) ==
    CASE a.k = "num"  -> IF a.v < 0 THEN NaN ELSE Num(PowFix(a.v, p, q))
      [] a.k = "nan"  -> NaN
      [] a.k = "inf"  -> Inf
      [] a.k = "-inf" -> Inf

\* frame / float(maxval): numpy divides by zero without raising.
XDivInt(a, n) ==
    IF a.k # "num" THEN a
    ELSE IF n = 0
         THEN (IF a.v > 0 THEN Inf ELSE IF a.v < 0 THEN NegInf ELSE NaN)
         ELSE Num(RoundDiv(a.v, n))

\* c * a and a / c for a constant c > 0, a + c for a constant c.
XScale(c, a) == IF IsNum(a) THEN Num(SMul(c, a.v)) ELSE a
XDivC(a, c) == IF IsNum(a) THEN Num(SDiv(a.v, c)) ELSE a
XAddC(a, c) == IF IsNum(a) THEN Num(a.v + c) ELSE a

\* a > n * 10^-digits; nothing but a number or +inf is greater.
XGt(a, n, digits) ==
    CASE a.k = "num"  -> IF digits > 6 THEN a.v * 10 ^ (digits - 6) > n
                                       ELSE a.v > Dec(n, digits)
      [] a.k = "inf"  -> TRUE
      [] OTHER        -> FALSE

\* a * mask, mask a boolean (1 or 0): 0 * inf and 0 * NaN are NaN.
XMask(a, mask) ==
    IF mask THEN a ELSE IF IsNum(a) THEN Num(0) ELSE NaN

\* a + b
XAdd(a, b) ==
    CASE IsNaN(a) \/ IsNaN(b)       -> NaN
      [] IsNum(a) /\ IsNum(b)       -> Num(a.v + b.v)
      [] IsNum(a)                   -> b
      [] IsNum(b)                   -> a
      [] a.k = b.k                  -> a
      [] OTHER                      -> NaN

\* frame *= maxval
XMulInt(a, n) ==
    CASE IsNum(a) -> Num(a.v * n)
      [] IsNaN(a) -> NaN
      [] OTHER    -> IF n = 0 THEN NaN ELSE a

\* ------------------------------------------------------- gamma / degamma

CurveModes == {"sRGB", "rec709"}

\* srgb_lo, srgb_hi and thresholdMask of gamma, for one normalized sample.
GammaLo(x, mode) ==
    CASE mode = "sRGB"   -> XScale(Dec(1292, 2), x)
      [] mode = "rec709" -> XScale(Dec(45, 1), x)

GammaHi(x, mode) ==
    CASE mode = "sRGB"   -> XAddC(XScale(Dec(1055, 3), XPow(x, 5, 12)), -Dec(55, 3))
      [] mode = "rec709" -> XAddC(XScale(Dec(1099, 3), XPow(x, 9, 20)), -Dec(99, 3))

GammaMask(x, mode) ==
    CASE mode = "sRGB"   -> XGt(x, 31308, 7)
      [] mode = "rec709" -> XGt(x, 18, 3)

\* srgb_lo, srgb_hi and thresholdMask of degamma.
DegammaLo(x, mode) ==
    CASE mode = "sRGB"   -> XDivC(x, Dec(1292, 2))
      [] mode = "rec709" -> XDivC(x, Dec(45, 1))

DegammaHi(x, mode) ==
    CASE mode = "sRGB"   -> XPow(XDivC(XAddC(x, Dec(55, 3)), Dec(1055, 3)), 12, 5)
      [] mode = "rec709" -> XPow(XDivC(XAddC(x, Dec(99, 3)), Dec(1099, 3)), 20, 9)

\* (A degamma that tests against gamma's thresholds is a variant the round
\* trip must tell from it.)
DegammaMaskOfGamma(x, mode) == GammaMask(x, mode)

DegammaMask(x, mode) ==
    CASE mode = "sRGB"   -> XGt(x, 4045, 5)
      [] mode = "rec709" -> XGt(x, 81, 3)

\* frame = srgb_hi * thresholdMask + srgb_lo * (~thresholdMask): both
\* branches are computed for every sample and weighted by 1 and 0.
Blend(hi, lo, mask) == XAdd(XMask(hi, mask), XMask(lo, ~mask))

\* The body of `if mode != None:` in gamma.  A mode that is neither curve
\* leaves srgb_hi, srgb_lo and thresholdMask unassigned, and the blend that
\* reads them raises UnboundLocalError.
GammaCurve(f, maxval, mode) ==
    IF mode \in CurveModes
    THEN Ok([i \in 1 .. Len(f) |->
                LET x == XDivInt(f[i], maxval)
                IN  XMulInt(Blend(GammaHi(x, mode), GammaLo(x, mode),
                                  GammaMask(x, mode)), maxval)])
    ELSE Raise("UnboundLocalError")

DegammaCurve(f, maxval, mode) ==
    IF mode \in CurveModes
    THEN Ok([i \in 1 .. Len(f) |->
                LET x == XDivInt(f[i], maxval)
                IN  XMulInt(Blend(DegammaHi(x, mode), DegammaLo(x, mode),
                                  DegammaMask(x, mode)), maxval)])
    ELSE Raise("UnboundLocalError")

\* (Two variants of the guard: one passes the frame through for any mode
\* that is no curve, one has no guard.)
gammaCurveOrNothing(f, maxval, mode) ==
    IF mode \in CurveModes THEN GammaCurve(f, maxval, mode) ELSE Ok(f)

gammaCurveAlways(f, maxval, mode) == GammaCurve(f, maxval, mode)

gamma(f, maxval, mode) ==
    IF mode # None THEN GammaCurve(f, maxval, mode) ELSE Ok(f)

degamma(f, maxval, mode) ==
    IF mode # None THEN DegammaCurve(f, maxval, mode) ELSE Ok(f)

\* ------------------------------------------- gamma / degamma: the system

\* Calls made in one run of the curves' specification.
MaxCurveCalls == 2

CurveMaxvals == {0, 1, 255}

\* The modes tried: no mode, the two curves, and two strings that name none.
Modes == {None, "sRGB", "rec709", "srgb", "linear"}

\* The curves treat every sample by itself, so the frames tried hold one.
\* Samples as fractions of maxval (in units of 1 / Unit): both sides of each
\* curve's threshold, the ends of the range, below 0 and above maxval.
CurveLevels ==
    {0, 1000, 3130, 3131, 18000, 18001, 50000, 214041, 500000, 1000000,
     1100000, -10000, -500000}

\* Whole pixel values.
CurvePixels == {1, 5, 128}

Positive(maxval) == IF maxval = 0 THEN 1 ELSE maxval

CurveSamples(maxval) ==
    {Num(l * Positive(maxval)) : l \in CurveLevels}
        \cup {Num(p * Unit) : p \in {q \in CurvePixels : q <= maxval}}

\* The curves are modelled for samples up to twice maxval either way.
InModelRange(f, maxval) ==
    \A i \in 1 .. Len(f) : IsNum(f[i]) => Abs(f[i].v) <= 2 * Positive(maxval) * Unit

CurveInit ==
    /\ params \in [maxval : CurveMaxvals, mode : Modes]
    /\ frame \in {<<x>> : x \in CurveSamples(params.maxval)}
    /\ calls = <<>>

\* frame = gamma(frame, maxval, mode); an exception ends the run.
CallGamma ==
    /\ Len(calls) < MaxCurveCalls
    /\ \A i \in 1 .. Len(calls) : Returned(calls[i].out)
    /\ InModelRange(frame, params.maxval)
    /\ LET r == gamma(frame, params.maxval, params.mode)
       IN  /\ calls' = Append(calls, [fn |-> "gamma", in |-> frame,
                                      maxval |-> params.maxval,
                                      mode |-> params.mode, out |-> r])
           /\ frame' = IF Returned(r) THEN Val(r) ELSE frame
    /\ UNCHANGED params

\* frame = degamma(frame, maxval, mode)
CallDegamma ==
    /\ Len(calls) < MaxCurveCalls
    /\ \A i \in 1 .. Len(calls) : Returned(calls[i].out)
    /\ InModelRange(frame, params.maxval)
    /\ LET r == degamma(frame, params.maxval, params.mode)
       IN  /\ calls' = Append(calls, [fn |-> "degamma", in |-> frame,
                                      maxval |-> params.maxval,
                                      mode |-> params.mode, out |-> r])
           /\ frame' = IF Returned(r) THEN Val(r) ELSE frame
    /\ UNCHANGED params

CurveNext == CallGamma \/ CallDegamma

GammaSpec == CurveInit /\ [][CurveNext]_vars

\* ------------------------------------------- gamma / degamma: claims

IsCurveCall(c) == c.fn \in {"gamma", "degamma"}

\* The round trip's error allowed, as a fraction of maxval: 0.000025.
Tol == Unit \div 40000

InRange(f, maxval) ==
    \A j \in 1 .. Len(f) : IsNum(f[j]) /\ 0 <= f[j].v /\ f[j].v <= maxval * Unit

\* C1: gamma and then degamma with the same maxval > 0 and the same curve,
\* on a frame whose samples lie in [0, maxval], return every sample to
\* within the tolerance of what it was.
C1_RoundTrip ==
    \A i \in 1 .. Len(calls) - 1 :
        LET c == calls[i]
            d == calls[i + 1]
        IN  (/\ c.fn = "gamma" /\ d.fn = "degamma"
             /\ c.mode \in CurveModes /\ d.mode = c.mode
             /\ c.maxval > 0 /\ d.maxval = c.maxval
             /\ InRange(c.in, c.maxval)) =>
                /\ Returned(c.out) /\ Returned(d.out)
                /\ d.in = Val(c.out)
                /\ \A j \in 1 .. Len(c.in) :
                       /\ IsNum(Val(d.out)[j])
                       /\ Abs(Val(d.out)[j].v - c.in[j].v) <= Tol * c.maxval

\* C1's case: a sample above the curve's threshold was encoded to a value
\* far from itself and decoded back to within the tolerance.
C1_Witness ==
    /\ Len(calls) = 2
    /\ calls[1].fn = "gamma" /\ calls[2].fn = "degamma"
    /\ params.mode = "sRGB" /\ params.maxval = 255
    /\ InRange(calls[1].in, 255)
    /\ calls[1].in[1].v > 255 * Dec(5, 2)
    /\ Val(calls[1].out)[1].v > 2 * calls[1].in[1].v
    /\ Abs(frame[1].v - calls[1].in[1].v) <= Tol * 255

\* C6: a mode that is neither "sRGB" nor "rec709" nor None makes gamma and
\* degamma raise; no frame is returned.
C6_InvalidModeRaises ==
    \A i \in Made :
        LET c == calls[i]
        IN  (IsCurveCall(c) /\ c.mode \notin CurveModes \cup {None}) =>
                c.out = Raise("UnboundLocalError")

\* C6's case: gamma was called with the mode "srgb" and raised.
C6_Witness ==
    /\ Len(calls) = 1
    /\ calls[1].fn = "gamma"
    /\ calls[1].mode = "srgb"
    /\ calls[1].maxval > 0
    /\ ~Returned(calls[1].out)

\* C9: with mode None, gamma and degamma return the frame they were given,
\* every sample unchanged, whatever maxval is (0 included), and never raise.
C9_NoneIsNoOp ==
    \A i \in Made :
        LET c == calls[i]
        IN  (IsCurveCall(c) /\ c.mode = None) => c.out = Ok(c.in)

\* C9's case: gamma and then degamma were called with mode None and
\* maxval 0 on a frame with a non-zero sample, which is still there.
C9_Witness ==
    /\ Len(calls) = 2
    /\ calls[1].fn = "gamma" /\ calls[2].fn = "degamma"
    /\ params.mode = None /\ params.maxval = 0
    /\ calls[1].in[1].v # 0
    /\ frame = calls[1].in

\* C10: for a curve mode and maxval > 0, on a frame of numbers one of which
\* is negative, gamma and degamma raise or return a frame without NaN.
C10_NegativeNeverNaN ==
    \A i \in Made :
        LET c == calls[i]
        IN  (/\ IsCurveCall(c) /\ c.mode \in CurveModes /\ c.maxval > 0
             /\ \A j \in 1 .. Len(c.in) : IsNum(c.in[j])
             /\ \E j \in 1 .. Len(c.in) : c.in[j].v < 0) =>
                (Returned(c.out) =>
                    \A j \in 1 .. Len(c.in) : ~IsNaN(Val(c.out)[j]))

====
